---- MODULE Spec2Model ----
(***************************************************************************)
(* The crawl-job lifecycle of the Google-Maps scraper's web runner:        *)
(* the scheduling loop (webrunner.work / webrunner.scrapeJob), the         *)
(* paginating search job (gmaps.SearchJob.Process), the seed builder       *)
(* (runner.CreateSeedJobs), the rotating CSV writer's Run loop, the        *)
(* completion monitor (exiter) and the deduplicator (deduper).             *)
(*                                                                         *)
(* The dispatch engine (scrapemate), the job storage (web/sqlite) and the  *)
(* search service are the environment: the engine hands every queued job   *)
(* to Process while its context is live, honours the retry budget and      *)
(* requeues child jobs; the job storage is a map from run id to record     *)
(* whose calls may fail; the service answers with any body of Bodies.      *)
(***************************************************************************)
EXTENDS Integers, Sequences, FiniteSets, TLC

(***************************************************************************)
(* Program constants.                                                      *)
(***************************************************************************)
resultsPerPage == 20
maxPaginationPages == 6
defaultMaxRetries == 1
defaultPrio == 1
defaultRadius == 10000
rotateLimit == 50000
flushEvery == 100

(***************************************************************************)
(* Bounds of the model.                                                    *)
(***************************************************************************)
NumRuns == 2
MaxUnreadable == 2
Concurrency == 2

Runs == 1..NumRuns
Workers == 1..Concurrency

(***************************************************************************)
(* Entries, as the decoder produces them.  dist is the distance of the     *)
(* entry from the job's geo anchor.                                        *)
(***************************************************************************)
Entry(cid, title, address, dist) ==
    [cid |-> cid, title |-> title, address |-> address, dist |-> dist]

FarEntry == Entry("c9", "far", "away", defaultRadius + 1)

\* A full page: resultsPerPage raw entries, two of them within the radius.
FullPage ==
    [i \in 1..resultsPerPage |->
        IF i = 1 THEN Entry("c1", "one", "first st", defaultRadius)
        ELSE IF i = 2 THEN Entry("", "t", "a", defaultRadius - 1)
        ELSE FarEntry]

\* A short page: fewer than resultsPerPage raw entries, one within the
\* radius, the place of FullPage's first entry under another title.
ShortPage ==
    << FarEntry, Entry("c1", "uno", "first st", defaultRadius - 1) >>

Payloads == [full |-> FullPage, short |-> ShortPage]

(***************************************************************************)
(* Response bodies: sequences of tokens, "\n" being the line break and a   *)
(* payload name standing for the encoded payload.                          *)
(***************************************************************************)
Bodies ==
    { <<>>, <<")]}'">>, <<")]}'", "\n">>, <<")]}'", "\n", "garbage">> }
      \cup { <<")]}'", "\n", p>> : p \in DOMAIN Payloads }

RECURSIVE IndexByte(_, _, _)
IndexByte(data, c, from) ==
    IF from > Len(data) THEN -1
    ELSE IF data[from] = c THEN from
    ELSE IndexByte(data, c, from + 1)

removeFirstLine(data) ==
    IF Len(data) = 0 THEN data
    ELSE LET index == IndexByte(data, "\n", 1)
         IN  IF index = -1 THEN <<>>
             ELSE SubSeq(data, index + 1, Len(data))

\* The decoder: [ok, entries].
ParseSearchResults(body) ==
    IF Len(body) = 1 /\ body[1] \in DOMAIN Payloads
    THEN [ok |-> TRUE, entries |-> Payloads[body[1]]]
    ELSE [ok |-> FALSE, entries |-> <<>>]

\* Insertion of e into the distance-sorted sequence s, after its equals.
RECURSIVE InsertByDist(_, _)
InsertByDist(s, e) ==
    IF s = <<>> THEN <<e>>
    ELSE IF e.dist < Head(s).dist THEN <<e>> \o s
    ELSE <<Head(s)>> \o InsertByDist(Tail(s), e)

RECURSIVE SortByDist(_)
SortByDist(s) ==
    IF s = <<>> THEN <<>>
    ELSE InsertByDist(SortByDist(SubSeq(s, 1, Len(s) - 1)), s[Len(s)])

WithinRadius(e, radius) == e.dist <= radius

filterAndSortEntriesWithinRadius(entries, radius) ==
    SortByDist(SelectSeq(entries, LAMBDA e : WithinRadius(e, radius)))

\* A faulty key: the title and address even when the entry has a CID.
DedupKeyByTitle(e) == e.title \o "|" \o e.address

\* The dedup key of an entry, as Process computes it.
DedupKey(e) == IF e.cid = "" THEN e.title \o "|" \o e.address ELSE e.cid

\* A search job: the seed query it stems from, its pagination state, its
\* priority, the deduplicator instance it refers to, and the attempts the
\* engine has made of it.
NoJob == [q |-> 0, pageNum |-> 0, offset |-> 0, maxPages |-> 0,
          prio |-> 0, dedup |-> 0, attempts |-> 0]

\* The deduplicator instance scrapeJob makes for the run (deduper.New()).
RunDeduper == 0

\* WithSearchJobMaxPages applied to a job whose maxPages is cur.
WithSearchJobMaxPages(cur, n) ==
    IF n > 0 /\ n <= maxPaginationPages THEN n ELSE cur

\* NewSearchJob for the q-th seed, with the options CreateSeedJobs passes.
NewSearchJob(q, maxDepth) ==
    [q |-> q, pageNum |-> 0, offset |-> 0,
     maxPages |-> IF maxDepth > 1
                  THEN WithSearchJobMaxPages(maxPaginationPages, maxDepth)
                  ELSE maxPaginationPages,
     prio |-> defaultPrio, dedup |-> RunDeduper, attempts |-> 0]

(***************************************************************************)
(* Text.  A string is a sequence of tokens: a word, a blank, a comma, one  *)
(* of the two directive marks, or the text of a number.  LongLine is a     *)
(* line longer than the scanner's buffer.                                  *)
(***************************************************************************)
Space == " "
Comma == ","
IdMark == "#!#"
GeoMark == "#!geo#"
LongLine == <<"(more than 64 KiB)">>

\* The number texts strconv.ParseFloat accepts, with their values.
Floats ==
    ("0" :> 0) @@ ("40.0" :> 40) @@ ("-73.0" :> -73) @@ ("41.0" :> 41)
      @@ ("29.0" :> 29) @@ ("95.0" :> 95)

\* strconv.ParseFloat(s, 64): [v, ok].
ParseFloat(s) ==
    IF Len(s) = 1 /\ s[1] \in DOMAIN Floats
    THEN [v |-> Floats[s[1]], ok |-> TRUE]
    ELSE [v |-> 0, ok |-> FALSE]

RECURSIVE TrimLeft(_)
TrimLeft(s) ==
    IF s # <<>> /\ Head(s) = Space THEN TrimLeft(Tail(s)) ELSE s

RECURSIVE TrimRight(_)
TrimRight(s) ==
    IF s # <<>> /\ s[Len(s)] = Space
    THEN TrimRight(SubSeq(s, 1, Len(s) - 1))
    ELSE s

\* strings.TrimSpace.
TrimSpace(s) == TrimRight(TrimLeft(s))

\* strings.Cut(s, sep): [before, after, found].
Cut(s, sep) ==
    LET i == IndexByte(s, sep, 1)
    IN  IF i = -1
        THEN [before |-> s, after |-> <<>>, found |-> FALSE]
        ELSE [before |-> SubSeq(s, 1, i - 1),
              after |-> SubSeq(s, i + 1, Len(s)), found |-> TRUE]

\* strings.Split(s, sep).
RECURSIVE Split(_, _)
Split(s, sep) ==
    LET c == Cut(s, sep)
    IN  IF c.found THEN <<c.before>> \o Split(c.after, sep) ELSE <<s>>

(***************************************************************************)
(* The seed builder (runner.CreateSeedJobs).                               *)
(***************************************************************************)
\* The zoom and the radius CreateSeedJobs falls back to.
fallbackZoom == 15
fallbackRadius == 10000

\* The global anchor CreateSeedJobs parses in direct-request mode: <<lat, lon>>,
\* <<0, 0>> when the text is empty, "0,0", malformed or out of range.
ParseGlobalGeo(geoCoordinates) ==
    LET parts == Split(geoCoordinates, Comma)
        lat == ParseFloat(TrimSpace(parts[1]))
        lon == ParseFloat(TrimSpace(parts[2]))
    IN  IF /\ geoCoordinates # <<>>
           /\ geoCoordinates # <<"0", Comma, "0">>
           /\ Len(parts) = 2
           /\ lat.ok /\ lon.ok
           /\ lat.v >= -90 /\ lat.v <= 90
           /\ lon.v >= -180 /\ lon.v <= 180
        THEN <<lat.v, lon.v>>
        ELSE <<0, 0>>

\* The settings the scan loop works with: in direct-request mode the parsed
\* global anchor and the normalised zoom and radius, otherwise the inputs.
Prepare(fastmode, maxDepth, geoCoordinates, zoom, radius) ==
    [fastmode |-> fastmode, maxDepth |-> maxDepth,
     geoCoordinates |-> geoCoordinates,
     lat |-> IF fastmode THEN ParseGlobalGeo(geoCoordinates)[1] ELSE 0,
     lon |-> IF fastmode THEN ParseGlobalGeo(geoCoordinates)[2] ELSE 0,
     zoom |-> IF fastmode /\ (zoom < 1 \/ zoom > 21) THEN fallbackZoom ELSE zoom,
     radius |-> IF fastmode /\ radius < 0 THEN fallbackRadius ELSE radius]

\* A faulty parse: the geo directive is looked for but left in the query.
ParseLineKeepGeo(text, p) ==
    LET trimmed == TrimSpace(text)
        byId == Cut(trimmed, IdMark)
        query == IF byId.found THEN TrimSpace(byId.before) ELSE trimmed
        byGeo == Cut(query, GeoMark)
        geoParts == Split(TrimSpace(byGeo.after), Comma)
        has == /\ byGeo.found
               /\ Len(geoParts) = 2
               /\ ParseFloat(geoParts[1]).ok
               /\ ParseFloat(geoParts[2]).ok
    IN  [query |-> query,
         id |-> IF byId.found THEN TrimSpace(byId.after) ELSE <<>>,
         queryLat |-> IF has THEN ParseFloat(geoParts[1]).v ELSE p.lat,
         queryLon |-> IF has THEN ParseFloat(geoParts[2]).v ELSE p.lon,
         queryGeo |-> IF has THEN geoParts[1] \o <<Comma>> \o geoParts[2]
                      ELSE p.geoCoordinates,
         hasPerQueryGeo |-> has]

\* The parse of one non-blank line: the id directive is cut off first, then
\* the geo directive is cut off what is left of the query.
ParseLine(text, p) ==
    LET trimmed == TrimSpace(text)
        byId == Cut(trimmed, IdMark)
        query == IF byId.found THEN TrimSpace(byId.before) ELSE trimmed
        byGeo == Cut(query, GeoMark)
        geoParts == Split(TrimSpace(byGeo.after), Comma)
        has == /\ byGeo.found
               /\ Len(geoParts) = 2
               /\ ParseFloat(geoParts[1]).ok
               /\ ParseFloat(geoParts[2]).ok
    IN  [query |-> IF byGeo.found THEN TrimSpace(byGeo.before) ELSE query,
         id |-> IF byId.found THEN TrimSpace(byId.after) ELSE <<>>,
         queryLat |-> IF has THEN ParseFloat(geoParts[1]).v ELSE p.lat,
         queryLon |-> IF has THEN ParseFloat(geoParts[2]).v ELSE p.lon,
         queryGeo |-> IF has THEN geoParts[1] \o <<Comma>> \o geoParts[2]
                      ELSE p.geoCoordinates,
         hasPerQueryGeo |-> has]

\* The arguments CreateSeedJobs hands to gmaps.NewGmapJob.
NewGmapJob(id, query, maxDepth, geoCoordinates, zoom) ==
    [kind |-> "gmap", id |-> id, query |-> query, maxDepth |-> maxDepth,
     geoCoordinates |-> geoCoordinates, zoom |-> zoom]

\* The seed job of a parsed line, the n-th of the list.
SeedJob(l, p, n) ==
    IF ~p.fastmode
    THEN NewGmapJob(l.id, l.query, p.maxDepth, l.queryGeo, p.zoom)
    ELSE [kind |-> "search", query |-> l.query,
          lat |-> l.queryLat, lon |-> l.queryLon,
          zoom |-> p.zoom, radius |-> p.radius,
          job |-> NewSearchJob(n, p.maxDepth)]

\* The scan loop of CreateSeedJobs over lines[i..], jobs being built so far.
RECURSIVE ScanLines(_, _, _, _)
ScanLines(lines, i, p, jobs) ==
    IF i > Len(lines) THEN [jobs |-> jobs, err |-> FALSE]
    ELSE IF lines[i] = LongLine THEN [jobs |-> jobs, err |-> TRUE]
    ELSE IF TrimSpace(lines[i]) = <<>> THEN ScanLines(lines, i + 1, p, jobs)
    ELSE LET l == ParseLine(lines[i], p)
         IN  IF p.fastmode /\ ~l.hasPerQueryGeo /\ p.lat = 0 /\ p.lon = 0
             THEN ScanLines(lines, i + 1, p, jobs)
             ELSE ScanLines(lines, i + 1, p,
                            Append(jobs, SeedJob(l, p, Len(jobs) + 1)))

\* CreateSeedJobs: [jobs, err].
CreateSeedJobs(fastmode, lines, maxDepth, geoCoordinates, zoom, radius) ==
    ScanLines(lines, 1,
              Prepare(fastmode, maxDepth, geoCoordinates, zoom, radius), <<>>)

(***************************************************************************)
(* A run's configuration (the stored job's data): its keyword lines, its   *)
(* latitude and longitude texts, and its depth.  The runs are in           *)
(* direct-request mode.                                                    *)
(***************************************************************************)
RunConfigs ==
    << [keywords |-> <<>>, lat |-> <<"41.0">>, lon |-> <<"29.0">>, depth |-> 1],
       [keywords |-> << <<"cafe">> >>,
        lat |-> <<"41.0">>, lon |-> <<"29.0">>, depth |-> 1],
       [keywords |-> << <<"cafe">>, <<"bar", GeoMark, "40.0", Comma, "-73.0">> >>,
        lat |-> <<"41.0">>, lon |-> <<"29.0">>, depth |-> 2],
       [keywords |-> << <<Space>>, <<"cafe">> >>,
        lat |-> <<>>, lon |-> <<>>, depth |-> 2],
       [keywords |-> << <<"bar", GeoMark, "40.0", Comma, "-73.0">>, LongLine >>,
        lat |-> <<"41.0">>, lon |-> <<"29.0">>, depth |-> 2],
       [keywords |-> << <<"cafe">> >>,
        lat |-> <<"41.0">>, lon |-> <<"29.0">>, depth |-> 2] >>

ConfigIds == DOMAIN RunConfigs

\* The coordinates scrapeJob hands to the seed builder.
Coords(data) ==
    IF data.lat # <<>> /\ data.lon # <<>>
    THEN data.lat \o <<Comma>> \o data.lon
    ELSE <<>>

\* The seed jobs scrapeJob builds from the job's data: the search jobs and
\* the error of CreateSeedJobs.  The runs have the zoom 15 and no radius of
\* their own, for which scrapeJob passes the default radius.
SeedJobs(data) ==
    LET built == CreateSeedJobs(TRUE, data.keywords, data.depth, Coords(data),
                                fallbackZoom, defaultRadius)
    IN  [jobs |-> [i \in DOMAIN built.jobs |-> built.jobs[i].job],
         err |-> built.err]

\* The configurations that yield at most one seed job, of at most two pages.
\* At most one seed job, of at most two pages.
IsLight(jobs) ==
    /\ Len(jobs) <= 1
    /\ \A i \in DOMAIN jobs : jobs[i].maxPages <= 2

LightConfigs == { c \in ConfigIds : IsLight(SeedJobs(RunConfigs[c]).jobs) }

\* The most seed jobs a configuration yields.
MaxSeeds ==
    CHOOSE n \in 0..8 :
        /\ \A c \in ConfigIds : Len(RunConfigs[c].keywords) <= n
        /\ \E c \in ConfigIds : Len(RunConfigs[c].keywords) = n
Seeds == 1..MaxSeeds
JobIds == Seeds \X (0..(maxPaginationPages - 1))
JobId(j) == <<j.q, j.pageNum>>

AllEntries == UNION { { Payloads[p][i] : i \in DOMAIN Payloads[p] } : p \in DOMAIN Payloads }
\* The dedup key of an entry, as the data model defines it.
EntryKey(e) == IF e.cid # "" THEN e.cid ELSE e.title \o "|" \o e.address
Keys == { EntryKey(e) : e \in AllEntries }

(***************************************************************************)
(* State.                                                                  *)
(***************************************************************************)
VARIABLES
    store,      \* the job storage: run id -> [status, count]
    shutdown,   \* the external shutdown request (the loop's ctx is cancelled)
    loopPc,     \* where work/scrapeJob stands
    cur,        \* the run scrapeJob works on, 0 when none
    cfg,        \* the data of that run: an index of RunConfigs, 0 when none
    job,        \* scrapeJob's in-memory job: [status, count]
    startErr,   \* what mate.Start returned to the last scrapeJob
    last,       \* history: what the last scrapeJob did on its way out
    countWg,    \* run id -> count-increment goroutines in flight
    mateCtx,    \* mateCtx: "none", "live", "canceled", "deadline"
    engErr,     \* a goroutine of the engine's group returned a non-context error
    exitMon,    \* the completion monitor of the run
    seen,       \* deduplicator instance -> the keys it has admitted
    queue,      \* the jobs pushed to the engine and not yet handed to a worker
    workers,    \* worker -> its position in Process
    writer,     \* the rotating writer
    shards,     \* shard index -> data rows of the shard file
    merged,     \* the merged file: [exists, rows]
    created,    \* history: ids of the jobs created in the run
    reported,   \* history: ids of the jobs that made their completion report
    retCount,   \* history: key -> number of entries with it returned as results
    admits,     \* history: key -> the AddIfNotExists calls made with it (up
                \* to two are counted) and how many of them returned true
    call        \* the arguments and the result of a function called on its
                \* own, outside a run

loopVars == <<store, shutdown, loopPc, cur, cfg, job, startErr, last, countWg>>
engineVars == <<mateCtx, engErr, exitMon, seen, queue, workers>>
outVars == <<writer, shards, merged>>
histVars == <<created, reported, retCount, admits, call>>
vars == <<loopVars, engineVars, outVars, histVars>>

IdleWorker == [pc |-> "idle", job |-> NoJob, entries |-> <<>>, i |-> 0,
               unique |-> <<>>, rawCount |-> 0, next |-> <<>>]

NewExiter == [seedCount |-> 0, seedCompleted |-> 0, placesFound |-> 0,
              placesCompleted |-> 0, hookCalls |-> 0, running |-> FALSE]

\* NewRotatingCsvWriter: no shard open (file 0), the next shard index 1.
\* running: the engine has its Run loop going; fileClosed: the handle of
\* the current shard has been closed; buffered: the records in the buffer of
\* the csv writer, not flushed to the handle; bufErr: a flush of that buffer
\* has failed, after which the csv writer returns the error on every write;
\* stale: a record was written to a handle that was closed already.
NewRotatingCsvWriter(limit) ==
    [running |-> FALSE, file |-> 0, fileClosed |-> FALSE,
     fileIndex |-> 1, currentCount |-> 0, limit |-> limit,
     buffered |-> 0, bufErr |-> FALSE, stale |-> FALSE,
     twice |-> FALSE, closeErr |-> FALSE]

\* The writer scrapeJob makes for a run.
NewWriter == NewRotatingCsvWriter(rotateLimit)

NoMerged == [exists |-> FALSE, header |-> <<>>, rows |-> <<>>, count |-> 0,
             err |-> FALSE, skipped |-> {}]

NoLast == [run |-> 0, closed |-> FALSE, waited |-> FALSE, merged |-> FALSE,
           wrote |-> "none", saved |-> FALSE]

Dedupers == 0..MaxSeeds
NoAdmits == [k \in {} |-> [calls |-> 0, trues |-> 0]]

NoCall == [fn |-> "none"]

NoHistory ==
    /\ created' = {}
    /\ reported' = {}
    /\ retCount' = [k \in Keys |-> 0]
    /\ admits' = NoAdmits
    /\ call' = call

\* Before any run: no run filed, the loop idle, nothing of a run in memory.
NoRun ==
    /\ store = [r \in Runs |-> [status |-> "absent", count |-> 0]]
    /\ shutdown = FALSE
    /\ loopPc = "idle"
    /\ cur = 0
    /\ cfg = 0
    /\ job = [status |-> "none", count |-> 0]
    /\ startErr = "none"
    /\ last = NoLast
    /\ countWg = [r \in Runs |-> 0]
    /\ mateCtx = "none"
    /\ engErr = FALSE
    /\ exitMon = NewExiter
    /\ seen = [d \in Dedupers |-> {}]
    /\ queue = {}
    /\ workers = [w \in Workers |-> IdleWorker]
    /\ shards = <<>>
    /\ merged = NoMerged
    /\ created = {}
    /\ reported = {}
    /\ retCount = [k \in Keys |-> 0]
    /\ admits = NoAdmits

Init ==
    /\ NoRun
    /\ writer = NewWriter
    /\ call = NoCall

(***************************************************************************)
(* The job storage and the dashboard.                                      *)
(***************************************************************************)
\* Service.Create: the dashboard files a run, pending.  The data of a run
\* never changes and only scrapeJob reads it: it is drawn when SelectPending
\* hands the run to the loop.
Create(r) ==
    /\ store[r].status = "absent"
    /\ store' = [store EXCEPT ![r] = [status |-> "pending", count |-> 0]]
    /\ UNCHANGED <<shutdown, loopPc, cur, cfg, job, startErr, last, countWg,
                   engineVars, outVars, histVars>>

\* A faulty selection: no filter on the status.
SelectAnyStatus(st) == { r \in Runs : st[r].status # "absent" }

\* Service.SelectPending: the runs the repository may return (limit 1).
SelectPending(st) == { r \in Runs : st[r].status = "pending" }

\* Service.Update of run r with the in-memory job j; ok is whether the
\* repository's call succeeded.
Update(st, r, j, ok) ==
    IF ok THEN [st EXCEPT ![r].status = j.status, ![r].count = j.count] ELSE st

\* Service.IncrementJobCount, as one of the goroutines OnWrite starts calls it.
CountIncr(r) ==
    /\ countWg[r] > 0
    /\ countWg' = [countWg EXCEPT ![r] = @ - 1]
    /\ store' = [store EXCEPT ![r].count = @ + 1]
    /\ UNCHANGED <<shutdown, loopPc, cur, cfg, job, startErr, last,
                   engineVars, outVars, histVars>>

\* The external shutdown request: the loop's context is cancelled, and with
\* it every context derived from it.
Shutdown ==
    /\ ~shutdown
    /\ shutdown' = TRUE
    /\ mateCtx' = IF mateCtx = "live" THEN "canceled" ELSE mateCtx
    /\ UNCHANGED <<store, loopPc, cur, cfg, job, startErr, last, countWg,
                   engErr, exitMon, seen, queue, workers, outVars, histVars>>

(***************************************************************************)
(* The scheduling loop: work and scrapeJob.                                *)
(***************************************************************************)
\* The per-run objects of scrapeJob are gone once it has returned.
ForgetRun ==
    /\ mateCtx' = "none"
    /\ engErr' = FALSE
    /\ exitMon' = NewExiter
    /\ seen' = [d \in Dedupers |-> {}]
    /\ queue' = {}
    /\ workers' = [w \in Workers |-> IdleWorker]
    /\ writer' = NewWriter
    /\ shards' = <<>>
    /\ merged' = NoMerged
    /\ NoHistory

\* scrapeJob returns to the loop, its last Update having carried the status
\* wrote and having succeeded or not.
Returned(wrote, ok) ==
    /\ loopPc' = "idle"
    /\ cur' = 0
    /\ cfg' = 0
    /\ job' = [status |-> "none", count |-> 0]
    /\ last' = [last EXCEPT !.run = cur, !.wrote = wrote, !.saved = ok]
    /\ ForgetRun

\* One round of the loop: the context is done, or a tick selects a pending
\* run, its data one of the configurations C, and enters scrapeJob unless
\* the context is done by then.
Tick(C) ==
    /\ loopPc = "idle"
    /\ \/ /\ shutdown
          /\ loopPc' = "stopped"
          /\ UNCHANGED <<cur, cfg, job>>
       \/ \E ok \in BOOLEAN :
             IF ~ok
             THEN loopPc' = "stopped" /\ UNCHANGED <<cur, cfg, job>>
             ELSE \E r \in SelectPending(store), c \in C :
                     IF shutdown
                     THEN loopPc' = "stopped" /\ UNCHANGED <<cur, cfg, job>>
                     ELSE /\ loopPc' = "mark_working"
                          /\ cur' = r
                          /\ cfg' = c
                          /\ job' = [status |-> store[r].status,
                                     count |-> store[r].count]
    /\ UNCHANGED <<store, shutdown, startErr, last, countWg,
                   engineVars, outVars, histVars>>

\* scrapeJob, first lines: the run is marked working.
MarkWorking ==
    /\ loopPc = "mark_working"
    /\ startErr' = "none"
    /\ \E ok \in BOOLEAN :
          /\ store' = Update(store, cur, [job EXCEPT !.status = "working"], ok)
          /\ IF ok
             THEN /\ loopPc' = "prepare"
                  /\ job' = [job EXCEPT !.status = "working"]
                  /\ last' = NoLast
                  /\ UNCHANGED <<cur, cfg, engineVars, outVars, histVars>>
             ELSE /\ loopPc' = "idle"
                  /\ cur' = 0
                  /\ cfg' = 0
                  /\ job' = [status |-> "none", count |-> 0]
                  /\ last' = [NoLast EXCEPT !.run = cur, !.wrote = "working"]
                  /\ ForgetRun
    /\ UNCHANGED <<shutdown, countWg>>

\* scrapeJob with an empty keyword list.
FailEmptyKeywords ==
    /\ loopPc = "prepare"
    /\ Len(RunConfigs[cfg].keywords) = 0
    /\ \E ok \in BOOLEAN :
          /\ store' = Update(store, cur, [job EXCEPT !.status = "failed"], ok)
          /\ Returned("failed", ok)
    /\ UNCHANGED <<shutdown, startErr, countWg>>

\* scrapeJob when setupMate fails.
FailSetup ==
    /\ loopPc = "prepare"
    /\ Len(RunConfigs[cfg].keywords) # 0
    /\ \E ok \in BOOLEAN :
          /\ store' = Update(store, cur, [job EXCEPT !.status = "failed"], ok)
          /\ Returned("failed", ok)
    /\ UNCHANGED <<shutdown, startErr, countWg>>

\* The status scrapeJob saves when CreateSeedJobs returns an error.
SeedErrorStatus(j) == j.status

\* The larger of two numbers (Go's max).
Max(a, b) == IF a > b THEN a ELSE b

\* The seconds scrapeJob estimates for one seed job and one unit of depth.
estimatedPerJob(fastMode) == IF fastMode THEN 15 ELSE 45

\* The least budget scrapeJob allows a run, in seconds.
minimumRequired(seedCount, fastMode, depth, concurrency) ==
    LET required == (seedCount * estimatedPerJob(fastMode) * Max(1, depth))
                       \div Max(1, concurrency) + 120
    IN  IF required < 180 THEN 180 ELSE required

\* The timeout scrapeJob puts on the engine's context, maxTime being the
\* job's MaxTime in whole seconds.
allowedSeconds(seedCount, fastMode, depth, concurrency, maxTime) ==
    LET minimum == minimumRequired(seedCount, fastMode, depth, concurrency)
    IN  IF maxTime > 0
        THEN IF maxTime < minimum THEN minimum ELSE maxTime
        ELSE minimum

\* A faulty hand-over: the jobs built before the error are started.
SeedsToStartPartial(built) == built.jobs

\* The seed jobs scrapeJob hands to the engine: none when CreateSeedJobs
\* returned an error, for scrapeJob returns before it starts anything.
SeedsToStart(built) == IF built.err THEN <<>> ELSE built.jobs

\* scrapeJob when CreateSeedJobs returns an error.
FailSeedBuilder ==
    /\ loopPc = "prepare"
    /\ Len(RunConfigs[cfg].keywords) # 0
    /\ SeedJobs(RunConfigs[cfg]).err
    /\ \E ok \in BOOLEAN :
          /\ store' = Update(store, cur,
                             [job EXCEPT !.status = SeedErrorStatus(job)], ok)
          /\ Returned(SeedErrorStatus(job), ok)
    /\ UNCHANGED <<shutdown, startErr, countWg>>

\* The monitor gets the seed count and is started, and the engine is handed
\* the seed jobs (exitMonitor.SetSeedCount, mate.Start).
Start(seedJobs) ==
    /\ Len(seedJobs) > 0
    /\ exitMon' = [NewExiter EXCEPT !.seedCount = Len(seedJobs),
                                    !.running = TRUE]
    /\ queue' = { seedJobs[i] : i \in DOMAIN seedJobs }
    /\ created' = { JobId(seedJobs[i]) : i \in DOMAIN seedJobs }

\* scrapeJob with seed jobs: the monitor gets the seed count and the cancel
\* function and is started, and the engine is started with the seed jobs.
StartEngine ==
    /\ loopPc = "prepare"
    /\ Len(RunConfigs[cfg].keywords) # 0
    /\ Start(SeedsToStart(SeedJobs(RunConfigs[cfg])))
    /\ mateCtx' = IF shutdown THEN "canceled" ELSE "live"
    /\ writer' = [NewWriter EXCEPT !.running = TRUE]
    /\ loopPc' = "running"
    /\ UNCHANGED <<store, shutdown, cur, cfg, job, startErr, last, countWg, engErr,
                   seen, workers, shards, merged, reported, retCount, admits, call>>

\* CreateSeedJobs returned no job and no error.
NoSeeds(built) == ~built.err /\ Len(built.jobs) = 0

\* scrapeJob without seed jobs: straight to the finalization.
SkipEngine ==
    /\ loopPc = "prepare"
    /\ Len(RunConfigs[cfg].keywords) # 0
    /\ NoSeeds(SeedJobs(RunConfigs[cfg]))
    /\ loopPc' = "close"
    /\ UNCHANGED <<store, shutdown, cur, cfg, job, startErr, last, countWg,
                   engineVars, outVars, histVars>>

(***************************************************************************)
(* The completion monitor and the deduplicator.                            *)
(***************************************************************************)
\* Quiescence, as the monitor's poll tests it.
IsDone(e) ==
    /\ e.seedCompleted = e.seedCount
    /\ e.placesCompleted >= e.placesFound

IncrSeedCompleted(e, n) == [e EXCEPT !.seedCompleted = @ + n]
IncrPlacesFound(e, n) == [e EXCEPT !.placesFound = @ + n]
IncrPlacesCompleted(e, n) == [e EXCEPT !.placesCompleted = @ + n]

\* A faulty deduplicator: the admitted key is not recorded.
AddIfNotExistsForgetful(s, key) == [ok |-> key \notin s, set |-> s]

\* AddIfNotExists on the key set s: whether the key is admitted, and the set
\* afterwards.
AddIfNotExists(s, key) == [ok |-> key \notin s, set |-> s \cup {key}]

\* A faulty test of the context: the deadline is not looked at.
CtxDoneOnCancel == mateCtx = "canceled"

CtxDone == mateCtx # "live"
\* The context of the engine's goroutine group is also done once one of the
\* group has returned an error.
EngineCtxDone == CtxDone \/ engErr

\* The monitor's loop finds its context done and returns.
MonitorStop ==
    /\ exitMon.running
    /\ CtxDone
    /\ exitMon' = [exitMon EXCEPT !.running = FALSE]
    /\ UNCHANGED <<loopVars, mateCtx, engErr, seen, queue, workers, outVars,
                   histVars>>

\* The monitor's poll finds quiescence, invokes the cancel function and
\* returns.
MonitorCancel ==
    /\ exitMon.running
    /\ IsDone(exitMon)
    /\ exitMon' = [exitMon EXCEPT !.running = FALSE, !.hookCalls = @ + 1]
    /\ mateCtx' = IF mateCtx = "live" THEN "canceled" ELSE mateCtx
    /\ UNCHANGED <<loopVars, engErr, seen, queue, workers, outVars, histVars>>

\* The computed deadline passes.
Deadline ==
    /\ loopPc = "running"
    /\ mateCtx = "live"
    /\ mateCtx' = "deadline"
    /\ UNCHANGED <<loopVars, engErr, exitMon, seen, queue, workers, outVars,
                   histVars>>

(***************************************************************************)
(* SearchJob.Process, step by step, as worker w of the engine runs it.     *)
(***************************************************************************)
\* Idle workers are alike: the engine hands a job to the first of them.
IsFreeWorker(w) ==
    /\ workers[w].pc = "idle"
    /\ \A v \in Workers : v < w => workers[v].pc # "idle"

\* A faulty failing step: a key is admitted to the deduplicator before the
\* body is found not to decode.
ProcessFailAdmitting(w) ==
    /\ loopPc = "running"
    /\ ~EngineCtxDone
    /\ IsFreeWorker(w)
    /\ \E j \in queue, body \in Bodies :
          /\ \/ Len(removeFirstLine(body)) = 0
             \/ ~ParseSearchResults(removeFirstLine(body)).ok
          /\ seen' = [seen EXCEPT ![j.dedup] = @ \cup {DedupKey(FullPage[1])}]
          /\ queue' = IF j.attempts < defaultMaxRetries
                       THEN (queue \ {j}) \cup {[j EXCEPT !.attempts = @ + 1]}
                       ELSE queue \ {j}
    /\ UNCHANGED <<loopVars, mateCtx, engErr, exitMon, workers, outVars,
                   created, reported, retCount, admits, call>>

\* The engine hands queued job j to idle worker w with a response whose body
\* is empty after the first line or does not decode: Process returns an
\* error, and the engine requeues the job while its retry budget lasts.
ProcessFail(w) ==
    /\ loopPc = "running"
    /\ ~EngineCtxDone
    /\ IsFreeWorker(w)
    /\ \E j \in queue, body \in Bodies :
          /\ \/ Len(removeFirstLine(body)) = 0
             \/ ~ParseSearchResults(removeFirstLine(body)).ok
          /\ queue' = IF j.attempts < defaultMaxRetries
                       THEN (queue \ {j}) \cup {[j EXCEPT !.attempts = @ + 1]}
                       ELSE queue \ {j}
    /\ UNCHANGED <<loopVars, mateCtx, engErr, exitMon, seen, workers, outVars,
                   created, reported, retCount, admits, call>>

\* The same with a body that decodes: the entries are counted, filtered by
\* the radius and sorted by distance.
ProcessBegin(w) ==
    /\ loopPc = "running"
    /\ ~EngineCtxDone
    /\ IsFreeWorker(w)
    /\ \E j \in queue, body \in Bodies :
          LET parsed == ParseSearchResults(removeFirstLine(body))
          IN  /\ Len(removeFirstLine(body)) # 0
              /\ parsed.ok
              /\ queue' = queue \ {j}
              /\ workers' = [workers EXCEPT ![w] =
                    [pc |-> "dedup", job |-> j,
                     entries |-> filterAndSortEntriesWithinRadius(
                                     parsed.entries, defaultRadius),
                     i |-> 1, unique |-> <<>>,
                     rawCount |-> Len(parsed.entries), next |-> <<>>]]
    /\ UNCHANGED <<loopVars, mateCtx, engErr, exitMon, seen, outVars, histVars>>

\* One round of the dedup loop.
DedupStep(w) ==
    /\ workers[w].pc = "dedup"
    /\ workers[w].i <= Len(workers[w].entries)
    /\ LET e == workers[w].entries[workers[w].i]
           d == workers[w].job.dedup
           key == DedupKey(e)
           res == IF key # "" THEN AddIfNotExists(seen[d], key)
                  ELSE [ok |-> FALSE, set |-> seen[d]]
           old == IF key \in DOMAIN admits THEN admits[key]
                  ELSE [calls |-> 0, trues |-> 0]
       IN  /\ seen' = [seen EXCEPT ![d] = res.set]
           /\ workers' = [workers EXCEPT
                 ![w].i = @ + 1,
                 ![w].unique = IF res.ok THEN Append(@, e) ELSE @]
           /\ admits' = IF key = "" THEN admits
                        ELSE [k \in DOMAIN admits \cup {key} |->
                                 IF k = key
                                 THEN [calls |-> IF old.calls < 2 THEN old.calls + 1
                                                 ELSE old.calls,
                                       trues |-> old.trues + (IF res.ok THEN 1 ELSE 0)]
                                 ELSE admits[k]]
    /\ UNCHANGED <<loopVars, mateCtx, engErr, exitMon, queue, outVars,
                   created, reported, retCount, call>>

\* The next-page job of job j, as Process builds it.
NextPageJob(j) ==
    [q |-> j.q, pageNum |-> j.pageNum + 1,
     offset |-> (j.pageNum + 1) * resultsPerPage,
     maxPages |-> j.maxPages, prio |-> j.prio + 1, dedup |-> j.dedup,
     attempts |-> 0]

\* A faulty test: the page just processed is compared with the maximum.
HasNextPageOffByOne(j, rawCount) ==
    rawCount >= resultsPerPage /\ j.pageNum < j.maxPages

\* Whether Process builds a next-page job.
HasNextPage(j, rawCount) ==
    rawCount >= resultsPerPage /\ j.pageNum + 1 < j.maxPages

\* A faulty step: the next-page job is built and not told to the monitor.
BuildNextUnregistered(w) ==
    /\ workers[w].pc = "dedup"
    /\ workers[w].i > Len(workers[w].entries)
    /\ LET j == workers[w].job
       IN  IF HasNextPage(j, workers[w].rawCount)
           THEN /\ workers' = [workers EXCEPT ![w].pc = "report",
                                              ![w].next = <<NextPageJob(j)>>]
                /\ created' = created \cup {JobId(NextPageJob(j))}
           ELSE /\ workers' = [workers EXCEPT ![w].pc = "report"]
                /\ UNCHANGED created
    /\ UNCHANGED <<loopVars, mateCtx, engErr, exitMon, seen, queue, outVars,
                   reported, retCount, admits, call>>

\* After the dedup loop: the next-page job is built and told to the monitor
\* as a place found.
BuildNext(w) ==
    /\ workers[w].pc = "dedup"
    /\ workers[w].i > Len(workers[w].entries)
    /\ LET j == workers[w].job
       IN  IF HasNextPage(j, workers[w].rawCount)
           THEN /\ workers' = [workers EXCEPT ![w].pc = "report",
                                              ![w].next = <<NextPageJob(j)>>]
                /\ exitMon' = IncrPlacesFound(exitMon, 1)
                /\ created' = created \cup {JobId(NextPageJob(j))}
           ELSE /\ workers' = [workers EXCEPT ![w].pc = "report"]
                /\ UNCHANGED <<exitMon, created>>
    /\ UNCHANGED <<loopVars, mateCtx, engErr, seen, queue, outVars,
                   reported, retCount, admits, call>>

\* A faulty report: every page counts as a seed completed.
ReportPageAsSeed(w) ==
    /\ workers[w].pc = "report"
    /\ exitMon' = IncrSeedCompleted(exitMon, 1)
    /\ reported' = reported \cup {JobId(workers[w].job)}
    /\ workers' = [workers EXCEPT ![w].pc = "found"]
    /\ UNCHANGED <<loopVars, mateCtx, engErr, seen, queue, outVars,
                   created, retCount, admits, call>>

\* The completion report of the page: a seed completed for page 0, a place
\* completed for a later page.
ReportPage(w) ==
    /\ workers[w].pc = "report"
    /\ exitMon' = IF workers[w].job.pageNum = 0
                  THEN IncrSeedCompleted(exitMon, 1)
                  ELSE IncrPlacesCompleted(exitMon, 1)
    /\ reported' = reported \cup {JobId(workers[w].job)}
    /\ workers' = [workers EXCEPT ![w].pc = "found"]
    /\ UNCHANGED <<loopVars, mateCtx, engErr, seen, queue, outVars,
                   created, retCount, admits, call>>

ReportFound(w) ==
    /\ workers[w].pc = "found"
    /\ exitMon' = IncrPlacesFound(exitMon, Len(workers[w].unique))
    /\ workers' = [workers EXCEPT ![w].pc = "completed"]
    /\ UNCHANGED <<loopVars, mateCtx, engErr, seen, queue, outVars, histVars>>

\* A faulty report: the decoded entries are counted as completed, not the
\* surviving ones.
ReportCompletedRaw(w) ==
    /\ workers[w].pc = "completed"
    /\ exitMon' = IncrPlacesCompleted(exitMon, workers[w].rawCount)
    /\ workers' = [workers EXCEPT ![w].pc = "return"]
    /\ UNCHANGED <<loopVars, mateCtx, engErr, seen, queue, outVars, histVars>>

ReportCompleted(w) ==
    /\ workers[w].pc = "completed"
    /\ exitMon' = IncrPlacesCompleted(exitMon, Len(workers[w].unique))
    /\ workers' = [workers EXCEPT ![w].pc = "return"]
    /\ UNCHANGED <<loopVars, mateCtx, engErr, seen, queue, outVars, histVars>>

RECURSIVE CountKeys(_, _)
CountKeys(entries, counts) ==
    IF entries = <<>> THEN counts
    ELSE CountKeys(Tail(entries),
                   [counts EXCEPT ![EntryKey(Head(entries))] = @ + 1])

\* Process returns the entries and the next-page job: the engine queues the
\* job and offers the entries on its results channel.
ProcessReturn(w) ==
    /\ workers[w].pc = "return"
    /\ queue' = queue \cup { workers[w].next[i] : i \in DOMAIN workers[w].next }
    /\ workers' = [workers EXCEPT ![w].pc = "send"]
    /\ retCount' = CountKeys(workers[w].unique, retCount)
    /\ UNCHANGED <<loopVars, mateCtx, engErr, exitMon, seen, outVars,
                   created, reported, admits, call>>

(***************************************************************************)
(* The rotating writer.  A shard file is its sequence of records, the      *)
(* header first; the record of an entry is the entry.  A record written    *)
(* is in the file once the file is flushed, which every close does first;  *)
(* a record written to a handle that is closed already never is.           *)
(***************************************************************************)
CsvHeaders == [cid |-> "cid", title |-> "title", address |-> "address", dist |-> 0]
CsvRow(e) == e

\* csvWriter.Flush: the buffer goes to the handle; on a closed handle a
\* buffer that is not empty stays, and the csv writer keeps the error.
Flush(w) ==
    IF w.fileClosed THEN [w EXCEPT !.bufErr = @ \/ w.buffered > 0]
    ELSE [w EXCEPT !.buffered = 0]

\* A faulty rotate: the shard index is not advanced.
rotateSameIndex(st, createOk) ==
    LET w0 == IF st.w.file # 0 THEN Flush(st.w) ELSE st.w
        w1 == IF st.w.file # 0
              THEN [w0 EXCEPT !.twice = @ \/ st.w.fileClosed,
                              !.fileClosed = TRUE]
              ELSE st.w
    IN  IF ~createOk THEN [st EXCEPT !.w = w1, !.err = TRUE]
        ELSE [st EXCEPT
                !.sh = [i \in DOMAIN st.sh \cup {w1.fileIndex} |->
                           IF i = w1.fileIndex THEN <<CsvHeaders>> ELSE st.sh[i]],
                !.w = [w1 EXCEPT !.file = w1.fileIndex, !.fileClosed = FALSE,
                                 !.currentCount = 0,
                                 !.buffered = 0, !.bufErr = FALSE]]

\* rotate: the current shard is flushed and closed, the next shard file is
\* created, becomes the current one with a new csv writer, and gets the
\* header, which is flushed.
\* st is [w, sh, err, n]: the writer, the shard files, whether an error was
\* returned, and the number of OnWrite calls made.
rotate(st, createOk) ==
    LET w0 == IF st.w.file # 0 THEN Flush(st.w) ELSE st.w
        w1 == IF st.w.file # 0
              THEN [w0 EXCEPT !.twice = @ \/ st.w.fileClosed,
                              !.fileClosed = TRUE]
              ELSE st.w
    IN  IF ~createOk THEN [st EXCEPT !.w = w1, !.err = TRUE]
        ELSE [st EXCEPT
                !.sh = [i \in DOMAIN st.sh \cup {w1.fileIndex} |->
                           IF i = w1.fileIndex THEN <<CsvHeaders>> ELSE st.sh[i]],
                !.w = [w1 EXCEPT !.file = w1.fileIndex, !.fileClosed = FALSE,
                                 !.currentCount = 0, !.fileIndex = @ + 1,
                                 !.buffered = 0, !.bufErr = FALSE]]

\* After the rotations of writeOne: the record goes to the csv writer, which
\* returns its error if it has one; the record is counted, the buffer is
\* flushed when the count is a multiple of every (0: never), and OnWrite is
\* called.
WriteRecord(s, entry, every) ==
    IF s.err THEN s
    ELSE IF s.w.bufErr THEN [s EXCEPT !.err = TRUE]
    ELSE LET w1 == [s.w EXCEPT !.currentCount = @ + 1,
                               !.buffered = @ + 1,
                               !.stale = @ \/ s.w.fileClosed]
             w2 == IF every # 0 /\ w1.currentCount % every = 0
                   THEN Flush(w1) ELSE w1
         IN  [s EXCEPT !.sh[s.w.file] = IF s.w.fileClosed THEN @
                                        ELSE Append(@, CsvRow(entry)),
                       !.w = w2,
                       !.n = @ + 1]

\* A faulty writeOne: the row limit is not looked at.
writeOneUnlimited(st, entry, createOk) ==
    WriteRecord(IF st.w.file = 0 THEN rotate(st, createOk) ELSE st,
                entry, flushEvery)

\* A faulty writeOne: no flush between rotations.
writeOneNoFlush(st, entry, createOk) ==
    LET s1 == IF st.w.file = 0 THEN rotate(st, createOk) ELSE st
    IN  WriteRecord(IF ~s1.err /\ s1.w.currentCount >= s1.w.limit
                    THEN rotate(s1, createOk) ELSE s1,
                    entry, 0)

writeOne(st, entry, createOk) ==
    LET s1 == IF st.w.file = 0 THEN rotate(st, createOk) ELSE st
    IN  WriteRecord(IF ~s1.err /\ s1.w.currentCount >= s1.w.limit
                    THEN rotate(s1, createOk) ELSE s1,
                    entry, flushEvery)

\* Write of a batch of entries.
RECURSIVE Write(_, _, _)
Write(st, entries, createOk) ==
    IF entries = <<>> \/ st.err THEN st
    ELSE Write(writeOne(st, Head(entries), createOk), Tail(entries), createOk)

\* The deferred function of Run: the current shard is flushed and closed,
\* and it stays the current one.
RunDeferred(w) ==
    IF w.file # 0
    THEN [Flush(w) EXCEPT !.running = FALSE,
                          !.twice = @ \/ w.fileClosed,
                          !.fileClosed = TRUE]
    ELSE [w EXCEPT !.running = FALSE]

\* Close: the current shard is flushed and closed, and forgotten; closeErr is
\* whether Close returned an error, which closing a closed file does.
Close(w) ==
    IF w.file # 0
    THEN [w EXCEPT !.file = 0, !.fileClosed = FALSE,
                   !.buffered = 0, !.bufErr = FALSE,
                   !.twice = @ \/ w.fileClosed, !.closeErr = w.fileClosed]
    ELSE [w EXCEPT !.closeErr = FALSE]

\* Run receives the result worker w offers and writes it; a failed Write
\* ends Run with the error.
Deliver(w) ==
    /\ writer.running
    /\ workers[w].pc = "send"
    /\ \E createOk \in BOOLEAN :
          LET st == Write([w |-> writer, sh |-> shards, err |-> FALSE, n |-> 0],
                          workers[w].unique, createOk)
          IN  /\ writer' = IF st.err THEN RunDeferred(st.w) ELSE st.w
              /\ shards' = st.sh
              /\ engErr' = (engErr \/ st.err)
              /\ countWg' = [countWg EXCEPT ![cur] = @ + st.n]
    /\ workers' = [workers EXCEPT ![w] = IdleWorker]
    /\ UNCHANGED <<store, shutdown, loopPc, cur, cfg, job, startErr, last, mateCtx,
                   exitMon, seen, queue, merged, histVars>>

\* Run finds its context done and returns.
WriterExit ==
    /\ writer.running
    /\ EngineCtxDone
    /\ writer' = RunDeferred(writer)
    /\ UNCHANGED <<loopVars, engineVars, shards, merged, histVars>>

\* The engine gives up offering a result nobody receives any more.
DropResult(w) ==
    /\ workers[w].pc = "send"
    /\ ~writer.running
    /\ workers' = [workers EXCEPT ![w] = IdleWorker]
    /\ UNCHANGED <<loopVars, mateCtx, engErr, exitMon, seen, queue, outVars,
                   histVars>>

(***************************************************************************)
(* scrapeJob after mate.Start.                                             *)
(***************************************************************************)
\* What mate.Start may return once every goroutine of the engine is back.
StartErrors ==
    IF engErr THEN {"error"} \cup (IF CtxDone THEN {mateCtx} ELSE {})
    ELSE {mateCtx}

EngineBack ==
    /\ loopPc = "running"
    /\ EngineCtxDone
    /\ \A w \in Workers : workers[w].pc = "idle"
    /\ ~writer.running

\* A faulty test: every error of mate.Start is a failure.
IsFailureAnyError(err) == err # "nil"

\* The test scrapeJob makes of mate.Start's error.
IsFailure(err) == err # "nil" /\ err # "deadline" /\ err # "canceled"

StartFailed ==
    /\ EngineBack
    /\ \E err \in StartErrors :
          /\ IsFailure(err)
          /\ startErr' = err
    /\ \E ok \in BOOLEAN :
          /\ store' = Update(store, cur, [job EXCEPT !.status = "failed"], ok)
          /\ Returned("failed", ok)
    /\ UNCHANGED <<shutdown, countWg>>

StartEnded ==
    /\ EngineBack
    /\ \E err \in StartErrors :
          /\ ~IsFailure(err)
          /\ startErr' = err
    /\ mateCtx' = IF mateCtx = "live" THEN "canceled" ELSE mateCtx
    /\ loopPc' = "close"
    /\ UNCHANGED <<store, shutdown, cur, cfg, job, last, countWg, engErr, exitMon,
                   seen, queue, workers, outVars, histVars>>

FinalClose ==
    /\ loopPc = "close"
    /\ writer' = Close(writer)
    /\ last' = [last EXCEPT !.closed = TRUE]
    /\ loopPc' = "wait"
    /\ UNCHANGED <<store, shutdown, cur, cfg, job, startErr, countWg, engineVars,
                   shards, merged, histVars>>

\* A faulty finalization: the count-increment goroutines are not awaited.
FinalNoWait ==
    /\ loopPc = "wait"
    /\ last' = [last EXCEPT !.waited = TRUE]
    /\ loopPc' = "merge"
    /\ UNCHANGED <<store, shutdown, cur, cfg, job, startErr, countWg, engineVars,
                   outVars, histVars>>

\* countWg.Wait returns once no count-increment goroutine is in flight.
FinalWait ==
    /\ loopPc = "wait"
    /\ countWg[cur] = 0
    /\ last' = [last EXCEPT !.waited = TRUE]
    /\ loopPc' = "merge"
    /\ UNCHANGED <<store, shutdown, cur, cfg, job, startErr, countWg, engineVars,
                   outVars, histVars>>

\* The decimal digits of n > 0.
RECURSIVE Digits(_)
Digits(n) == IF n < 10 THEN <<n>> ELSE Append(Digits(n \div 10), n % 10)

\* The order of sort.Strings on the shard names of indices a and b.
RECURSIVE LexLess(_, _)
LexLess(a, b) ==
    IF a = <<>> THEN b # <<>>
    ELSE IF b = <<>> THEN FALSE
    ELSE IF Head(a) # Head(b) THEN Head(a) < Head(b)
    ELSE LexLess(Tail(a), Tail(b))

\* readCSVWithBOM of shard file i of sh, the files bad being those that
\* cannot be read or do not parse.
readCSVWithBOM(sh, i, bad) ==
    IF i \in bad THEN [err |-> TRUE, records |-> <<>>]
    ELSE [err |-> FALSE, records |-> sh[i]]

\* The loop of mergeCSVFiles over the files idx of sh, in the order of their
\* names: out is [header, rows], the header records and the data records
\* written so far.
RECURSIVE MergeRows(_, _, _, _)
MergeRows(sh, idx, out, bad) ==
    IF idx = {} THEN out
    ELSE LET first == CHOOSE i \in idx :
                         \A k \in idx \ {i} : LexLess(Digits(i), Digits(k))
             read == readCSVWithBOM(sh, first, bad)
             next == IF read.err \/ Len(read.records) = 0 THEN out
                     ELSE [header |-> IF out.header = <<>> THEN <<read.records[1]>>
                                      ELSE out.header,
                           rows |-> out.rows \o Tail(read.records)]
         IN  MergeRows(sh, idx \ {first}, next, bad)

\* mergeCSVFiles on the shard files sh, those of bad unreadable: the merged
\* file, the shard files left, the count returned.  Every shard file is
\* removed once the loop is over.
mergeCSVFiles(sh, old, createOk, bad) ==
    IF DOMAIN sh = {} THEN [merged |-> old, sh |-> sh, count |-> 0]
    ELSE IF ~createOk
    THEN [merged |-> [old EXCEPT !.err = TRUE], sh |-> sh, count |-> 0]
    ELSE LET out == MergeRows(sh, DOMAIN sh, [header |-> <<>>, rows |-> <<>>], bad)
         IN  [merged |-> [exists |-> TRUE, header |-> out.header,
                          rows |-> out.rows, count |-> Len(out.rows),
                          err |-> FALSE, skipped |-> bad \cap DOMAIN sh],
              sh |-> <<>>, count |-> Len(out.rows)]

\* The shard files that may fail to be read in one call: none, or one of the
\* first MaxUnreadable.
Unreadable(sh) == {{}} \cup { {i} : i \in DOMAIN sh \cap (1..MaxUnreadable) }

\* mergeCSVFiles, then the status and the count of the job are set.
Merge ==
    /\ loopPc = "merge"
    /\ \E createOk \in BOOLEAN, bad \in Unreadable(shards) :
          LET res == mergeCSVFiles(shards, merged, createOk, bad)
          IN  /\ merged' = res.merged
              /\ shards' = res.sh
              /\ job' = [status |-> "ok", count |-> res.count]
    /\ last' = [last EXCEPT !.merged = TRUE]
    /\ loopPc' = "final"
    /\ UNCHANGED <<store, shutdown, cur, cfg, startErr, countWg, engineVars, writer,
                   histVars>>

FinalUpdate ==
    /\ loopPc = "final"
    /\ \E ok \in BOOLEAN :
          /\ store' = Update(store, cur, job, ok)
          /\ Returned(job.status, ok)
    /\ UNCHANGED <<shutdown, startErr, countWg>>

(***************************************************************************)
(* The system.                                                             *)
(***************************************************************************)
\* What the loop, the monitor, the writer's Run and the timers do, the runs
\* having their data among the configurations C.
LoopStep(C) ==
    \/ \E r \in Runs : CountIncr(r)
    \/ Shutdown
    \/ Tick(C)
    \/ MarkWorking
    \/ FailEmptyKeywords
    \/ FailSetup
    \/ FailSeedBuilder
    \/ StartEngine
    \/ SkipEngine
    \/ MonitorStop
    \/ MonitorCancel
    \/ Deadline
    \/ WriterExit
    \/ StartFailed
    \/ StartEnded
    \/ FinalClose
    \/ FinalWait
    \/ Merge
    \/ FinalUpdate

\* What worker w of the engine does.
WorkerStep(w) ==
    \/ ProcessFail(w)
    \/ ProcessBegin(w)
    \/ DedupStep(w)
    \/ BuildNext(w)
    \/ ReportPage(w)
    \/ ReportFound(w)
    \/ ReportCompleted(w)
    \/ ProcessReturn(w)
    \/ Deliver(w)
    \/ DropResult(w)

\* One run filed, with any configuration, and an engine of Concurrency
\* workers.
Next ==
    \/ Create(1)
    \/ LoopStep(ConfigIds)
    \/ \E w \in Workers : WorkerStep(w)

Spec == Init /\ [][Next]_vars

\* NumRuns runs filed, with the light configurations, and an engine of one
\* worker.
LoopNext ==
    \/ \E r \in Runs : Create(r)
    \/ LoopStep(LightConfigs)
    \/ WorkerStep(1)

LoopSpec == Init /\ [][LoopNext]_vars

\* What scrapeJob does once the engine is back.
RunStep ==
    \/ StartFailed
    \/ StartEnded
    \/ FinalClose
    \/ FinalWait
    \/ Merge
    \/ FinalUpdate

\* The same system with every goroutine that can take a step taking one
\* eventually: scrapeJob, the monitor's poll, the writer's Run, the
\* count-increment goroutines and the engine's worker.
FairLoopSpec ==
    /\ Init /\ [][LoopNext]_vars
    /\ WF_vars(RunStep)
    /\ WF_vars(MonitorStop)
    /\ WF_vars(WriterExit)
    /\ WF_vars(\E r \in Runs : CountIncr(r))
    /\ WF_vars(WorkerStep(1))

(***************************************************************************)
(* The rotating writer and mergeCSVFiles on their own: a writer of a small *)
(* row limit is written to, its Run returns, it is closed any number of    *)
(* times, and the shard files are merged.  call holds the number of rows   *)
(* handed to Write, the size of the last batch, and whether there were     *)
(* only Write calls so far, none of them failing.                          *)
(***************************************************************************)
MaxLimit == 2
MaxWrites == 11
Limits == 1..MaxLimit
Batches == { <<FullPage[1]>>, <<FullPage[2], FarEntry, FullPage[1]>> }

runVars == <<loopVars, engineVars, created, reported, retCount, admits>>

WriterInit ==
    /\ NoRun
    /\ \E limit \in Limits :
          writer = [NewRotatingCsvWriter(limit) EXCEPT !.running = TRUE]
    /\ call = [fn |-> "Write", rows |-> 0, batch |-> 0, plain |-> TRUE]

\* Write is called with a batch of entries, as Run calls it.
CallWrite ==
    /\ call.fn = "Write"
    /\ \E batch \in Batches, createOk \in BOOLEAN :
          LET st == Write([w |-> writer, sh |-> shards, err |-> FALSE, n |-> 0],
                          batch, createOk)
          IN  /\ call.rows + Len(batch) <= MaxWrites
              /\ writer' = st.w
              /\ shards' = st.sh
              /\ call' = [call EXCEPT !.rows = @ + Len(batch),
                                      !.batch = Len(batch),
                                      !.plain = @ /\ ~st.err]
    /\ UNCHANGED <<runVars, merged>>

\* Run returns: its deferred function runs.
CallRunReturn ==
    /\ call.fn = "Write"
    /\ writer.running
    /\ writer' = RunDeferred(writer)
    /\ call' = [call EXCEPT !.plain = FALSE]
    /\ UNCHANGED <<runVars, shards, merged>>

\* Close is called.
CallClose ==
    /\ call.fn = "Write"
    /\ writer' = Close(writer)
    /\ call' = [call EXCEPT !.plain = FALSE]
    /\ UNCHANGED <<runVars, shards, merged>>

\* mergeCSVFiles is called on the shard files there are.
CallMerge ==
    /\ call.fn = "Write"
    /\ \E createOk \in BOOLEAN, bad \in Unreadable(shards) :
          LET res == mergeCSVFiles(shards, merged, createOk, bad)
          IN  /\ merged' = res.merged
              /\ shards' = res.sh
              /\ call' = [fn |-> "mergeCSVFiles", sh |-> shards,
                          count |-> res.count, err |-> res.merged.err,
                          skipped |-> res.merged.skipped]
    /\ UNCHANGED <<runVars, writer>>

WriterNext == CallWrite \/ CallRunReturn \/ CallClose \/ CallMerge

WriterSpec == WriterInit /\ [][WriterNext]_vars

(***************************************************************************)
(* The rotating writer with row limits around the flush period: up to      *)
(* MaxFlushWrites rows are written, one or three to a Write call; Run      *)
(* returns and Close is called when the row count of the current shard is  *)
(* one of FlushStops.  call holds the number of rows written.              *)
(***************************************************************************)
MaxFlushWrites == 125
FlushLimits == { flushEvery - 1, flushEvery, flushEvery + 20 }
FlushStops == { 1, flushEvery - 1, flushEvery }
FlushBatches == { <<FullPage[1]>>, <<FullPage[1], FullPage[1], FullPage[1]>> }

FlushInit ==
    /\ NoRun
    /\ \E limit \in FlushLimits :
          writer = [NewRotatingCsvWriter(limit) EXCEPT !.running = TRUE]
    /\ call = [fn |-> "Write", rows |-> 0, batch |-> 0, plain |-> TRUE]

FlushWrite ==
    /\ call.fn = "Write"
    /\ \E batch \in FlushBatches, createOk \in BOOLEAN :
          LET st == Write([w |-> writer, sh |-> shards, err |-> FALSE, n |-> 0],
                          batch, createOk)
          IN  /\ call.rows + Len(batch) <= MaxFlushWrites
              /\ writer' = st.w
              /\ shards' = st.sh
              /\ call' = [call EXCEPT !.rows = @ + st.n]
    /\ UNCHANGED <<runVars, merged>>

FlushRunReturn ==
    /\ writer.currentCount \in FlushStops
    /\ CallRunReturn

FlushClose ==
    /\ writer.currentCount \in FlushStops
    /\ CallClose

FlushNext == FlushWrite \/ FlushRunReturn \/ FlushClose

FlushSpec == FlushInit /\ [][FlushNext]_vars

(***************************************************************************)
(* The seed builder on its own: CreateSeedJobs is called with a mode, up   *)
(* to MaxLines lines, a depth, a global anchor text, a zoom and a radius,  *)
(* and scrapeJob hands what it returns to the engine.                      *)
(***************************************************************************)
MaxLines == 2

PerQueryGeo == <<GeoMark, "40.0", Comma, "-73.0">>

SeedLines ==
    { <<"cafe">>,
      <<"coffee">> \o PerQueryGeo,
      <<"bakery", IdMark, "my-id">>,
      <<"coffee">> \o PerQueryGeo \o <<IdMark, "my-id">>,
      <<"bakery", IdMark, "my-id">> \o PerQueryGeo,
      <<Space, "tea", Space, GeoMark, Space, "40.0", Comma, "-73.0", Space>>,
      <<"tea", GeoMark, "40.0", Comma, Space, "-73.0">>,
      <<"pub", GeoMark, "0", Comma, "0">>,
      <<"pub", GeoMark, "north">>,
      <<Space>>,
      LongLine }

RECURSIVE SeqsUpTo(_, _)
SeqsUpTo(S, n) ==
    IF n = 0 THEN { <<>> }
    ELSE LET shorter == SeqsUpTo(S, n - 1)
         IN  shorter \cup { Append(s, x) : s \in shorter, x \in S }

GlobalGeos ==
    { <<>>, <<"0", Comma, "0">>, <<"41.0", Comma, Space, "29.0">>,
      <<"95.0", Comma, "29.0">>, <<"north">> }
Zooms == {0, 15, 22}
Radii == {-1, 500}
Depths == {1, 2}

SeedInit ==
    /\ NoRun
    /\ writer = NewWriter
    /\ \E fastmode \in BOOLEAN, lines \in SeqsUpTo(SeedLines, MaxLines),
          maxDepth \in Depths, geoCoordinates \in GlobalGeos,
          zoom \in Zooms, radius \in Radii :
          call = [fn |-> "CreateSeedJobs", pc |-> "args",
                  fastmode |-> fastmode, lines |-> lines,
                  maxDepth |-> maxDepth, geoCoordinates |-> geoCoordinates,
                  zoom |-> zoom, radius |-> radius,
                  res |-> [jobs |-> <<>>, err |-> FALSE], started |-> <<>>]

\* The call of CreateSeedJobs.
CallCreateSeedJobs ==
    /\ call.fn = "CreateSeedJobs"
    /\ call.pc = "args"
    /\ call' = [call EXCEPT
                  !.pc = "built",
                  !.res = CreateSeedJobs(call.fastmode, call.lines,
                                         call.maxDepth, call.geoCoordinates,
                                         call.zoom, call.radius)]
    /\ UNCHANGED <<runVars, outVars>>

\* scrapeJob after the call: it returns on an error, and otherwise starts
\* the engine with the seed jobs.
CallStart ==
    /\ call.fn = "CreateSeedJobs"
    /\ call.pc = "built"
    /\ call' = [call EXCEPT !.pc = "started",
                            !.started = SeedsToStart(call.res)]
    /\ UNCHANGED <<runVars, outVars>>

SeedNext == CallCreateSeedJobs \/ CallStart

SeedSpec == SeedInit /\ [][SeedNext]_vars

(***************************************************************************)
(* The run's budget on its own: scrapeJob computes the timeout from the    *)
(* number of seed jobs, the mode, the depth, the concurrency and the       *)
(* job's MaxTime.                                                          *)
(***************************************************************************)
MaxSeedCount == 10

BudgetDepths == {0, 1, 2, 6, 10}
BudgetConcurrencies == {1, 2, 5}
MaxTimes == {0, 60, 200, 1000}

BudgetInit ==
    /\ NoRun
    /\ writer = NewWriter
    /\ \E seedCount \in 1..MaxSeedCount, fastMode \in BOOLEAN,
          depth \in BudgetDepths, concurrency \in BudgetConcurrencies,
          maxTime \in MaxTimes :
          call = [fn |-> "allowedSeconds", pc |-> "args",
                  seedCount |-> seedCount, fastMode |-> fastMode,
                  depth |-> depth, concurrency |-> concurrency,
                  maxTime |-> maxTime, allowed |-> 0]

\* scrapeJob computing the timeout of the run.
CallAllowedSeconds ==
    /\ call.fn = "allowedSeconds"
    /\ call.pc = "args"
    /\ call' = [call EXCEPT
                  !.pc = "done",
                  !.allowed = allowedSeconds(call.seedCount, call.fastMode,
                                             call.depth, call.concurrency,
                                             call.maxTime)]
    /\ UNCHANGED <<runVars, outVars>>

BudgetNext == CallAllowedSeconds

BudgetSpec == BudgetInit /\ [][BudgetNext]_vars

(***************************************************************************)
(* The claims.                                                             *)
(***************************************************************************)
EngineIdle ==
    /\ loopPc = "running"
    /\ queue = {}
    /\ \A w \in Workers : workers[w].pc = "idle"

\* C1: termination by quiescence.  Once the engine has handed every job of
\* the run (the seeds and every continuation spawned) to its processing
\* step, failed steps included, and no context is done, the counters are
\* quiescent, so that the monitor's next poll invokes the cancel function.
C1_QuiescentWhenExhausted ==
    (EngineIdle /\ ~EngineCtxDone) => IsDone(exitMon)

SeedsOf(ids) == { id \in ids : id[2] = 0 }
PagesOf(ids) == { id \in ids : id[2] > 0 }

\* C2: no false quiescence.  Whenever the counters are quiescent, every job
\* created in the run has made its completion report; and every seed and
\* every next-page job that has not reported yet is still counted as
\* outstanding by the counters, from the moment it is created.
C2_NoFalseQuiescence ==
    /\ IsDone(exitMon) => created \subseteq reported
    /\ exitMon.seedCount - exitMon.seedCompleted
          = Cardinality(SeedsOf(created) \ reported)
    /\ exitMon.placesFound - exitMon.placesCompleted
          >= Cardinality(PagesOf(created) \ reported)

\* Quiescence is reached in a run with a continuation page, a worker still
\* holding the results of the last page.
C2_Witness ==
    /\ loopPc = "running"
    /\ IsDone(exitMon)
    /\ PagesOf(created) # {}
    /\ created \subseteq reported
    /\ \E w \in Workers : workers[w].pc = "return"

RowKeys(rows) == { EntryKey(rows[i]) : i \in DOMAIN rows }

\* C3: no loss under cancellation.  When a run whose engine ended by a
\* cancellation (quiescence, deadline or shutdown) has been merged, every
\* entry that a processing step returned as a result is a row of the merged
\* file.
C3_NoLossUnderCancellation ==
    (loopPc = "final" /\ ~engErr /\ ~merged.err /\ merged.skipped = {})
        => \A k \in Keys : retCount[k] > 0 => k \in RowKeys(merged.rows)

\* C4: admit is idempotent and linearizable.  Over the AddIfNotExists calls
\* of a run, made by any workers in any order, exactly one call per key
\* returns true: the first one.
C4_DedupLinearizable ==
    \A k \in DOMAIN admits : admits[k].calls > 0 => admits[k].trues = 1

\* Two workers are in the dedup loop at once, and a key has been asked for
\* twice.
C4_Witness ==
    /\ \A w \in {1, 2} : workers[w].pc = "dedup"
    /\ \E k \in DOMAIN admits : admits[k].calls = 2 /\ admits[k].trues = 1

\* C5: no duplicate output across branches.  No two entries returned as
\* results by the jobs of a run have the same dedup key.
C5_NoDuplicateResults == \A k \in Keys : retCount[k] <= 1

\* An entry was returned, and another entry with its key was offered to the
\* deduplicator by a job of another seed.
C5_Witness ==
    /\ \E k \in Keys : retCount[k] = 1 /\ k \in DOMAIN admits /\ admits[k].calls = 2
    /\ SeedsOf(reported) = SeedsOf(created)
    /\ Cardinality(SeedsOf(created)) = 2

\* The max-pages the claim derives from the configured depth.
ConfiguredMaxPages(depth) ==
    IF depth >= 1 /\ depth <= maxPaginationPages THEN depth ELSE maxPaginationPages

\* C6: pagination bound.  Every job of a run has a page index below the
\* max-pages that the configured depth stands for.
C6_PaginationBound ==
    cfg # 0 => \A id \in created :
                   id[2] + 1 <= ConfiguredMaxPages(RunConfigs[cfg].depth)

InRun == loopPc \in {"running", "close", "wait", "merge", "final"}

\* C7: the completion counters.  Within a run, no counter ever decreases
\* and seeds-total does not change; seeds-completed never exceeds
\* seeds-total, seeds-total is the number of seed jobs built, and
\* seeds-completed is the number of seed jobs that have reported.
C7_Counters ==
    /\ [](/\ exitMon.seedCompleted <= exitMon.seedCount
          /\ exitMon.seedCompleted = Cardinality(SeedsOf(reported))
          /\ loopPc = "running" =>
                exitMon.seedCount = Len(SeedJobs(RunConfigs[cfg]).jobs))
    /\ [][(InRun /\ InRun') =>
             /\ exitMon'.seedCount = exitMon.seedCount
             /\ exitMon'.seedCompleted >= exitMon.seedCompleted
             /\ exitMon'.placesFound >= exitMon.placesFound
             /\ exitMon'.placesCompleted >= exitMon.placesCompleted]_vars

\* Both seeds of a run have completed, one of them with a continuation page.
C7_Witness ==
    /\ exitMon.seedCount = 2
    /\ exitMon.seedCompleted = 2
    /\ exitMon.placesFound > exitMon.placesCompleted
    /\ PagesOf(reported) # {}

\* C8: every run marked working ends ok or failed.  When scrapeJob has
\* returned and its last status update was stored, the stored status of the
\* run is ok or failed.
C8_WorkingRunsEnd ==
    (last.run # 0 /\ last.saved) => store[last.run].status \in {"ok", "failed"}

\* C9: run status transitions.  The loop changes a stored status only from
\* pending to working, from working to ok and from working to failed (the
\* dashboard files runs as pending), and it takes up only pending runs: a
\* run that is ok or failed is never taken up again and keeps its status.
C9_StatusTransitions ==
    /\ [][\A r \in Runs :
             store'[r].status # store[r].status =>
                <<store[r].status, store'[r].status>> \in
                    { <<"absent", "pending">>, <<"pending", "working">>,
                      <<"working", "ok">>, <<"working", "failed">> }]_vars
    /\ [][(cur' # cur /\ cur' # 0) => store[cur'].status = "pending"]_vars
    /\ [][\A r \in Runs :
             store[r].status \in {"ok", "failed"} =>
                store'[r].status = store[r].status /\ cur' # r]_vars

\* One run has ended ok and the loop works on the next one.
C9_Witness ==
    /\ store[1].status = "ok"
    /\ store[2].status = "working"
    /\ cur = 2

CancelClass == {"canceled", "deadline"}

\* C10: cancellation is never a failure.  When mate.Start has returned a
\* context-cancelled or deadline-exceeded error, scrapeJob goes through the
\* finalization (close, wait, merge) and saves the status ok; it saves
\* failed only when mate.Start returned another error or was never called.
C10_CancellationIsNoFailure ==
    /\ (startErr \in CancelClass /\ last.run # 0) =>
          /\ last.closed /\ last.waited /\ last.merged
          /\ last.wrote = "ok"
          /\ last.saved => store[last.run].status = "ok"
    /\ (startErr \in CancelClass /\ last.run = 0) =>
          loopPc \in {"close", "wait", "merge", "final"}
    /\ last.wrote = "failed" => startErr \in {"error", "none"}

\* A run cancelled by the monitor, nobody having asked for a shutdown, has
\* been finalized and is stored as ok.
C10_Witness ==
    /\ startErr = "canceled"
    /\ ~shutdown
    /\ last.run # 0
    /\ last.saved
    /\ store[last.run].status = "ok"

\* The data rows of the shards 1..k of sh, in the order of their indices.
RECURSIVE RowsByIndex(_, _)
RowsByIndex(sh, k) ==
    IF k = 0 THEN <<>> ELSE RowsByIndex(sh, k - 1) \o Tail(sh[k])

\* C12: merge correctness.  mergeCSVFiles called on shards 1..k, k >= 1
\* (k >= 10 included), makes a merged file of one header, the first
\* shard's, and the data rows of shard 1, then shard 2, ..., then shard k,
\* returns the number of these rows, and deletes the shards; with no shard
\* it returns 0 without error.
C12_MergeCorrect ==
    (call.fn = "mergeCSVFiles" /\ ~call.err /\ call.skipped = {}) =>
        LET k == Cardinality(DOMAIN call.sh)
        IN  IF k = 0
            THEN call.count = 0 /\ ~merged.exists
            ELSE /\ DOMAIN call.sh = 1..k
                 /\ merged.exists
                 /\ merged.header = <<call.sh[1][1]>>
                 /\ merged.rows = RowsByIndex(call.sh, k)
                 /\ call.count = Len(RowsByIndex(call.sh, k))
                 /\ shards = <<>>

\* C13: shard row cap.  After any sequence of Write calls on a writer of
\* row limit L >= 1, no shard file holds more than L data rows, its header
\* apart; a batch that crosses the limit is split across shards.
C13_ShardRowCap ==
    call.fn = "Write" =>
        /\ \A i \in DOMAIN shards : Len(shards[i]) - 1 <= writer.limit
        /\ call.plain =>
              /\ Len(RowsByIndex(shards, Cardinality(DOMAIN shards))) = call.rows
              /\ \A i \in DOMAIN shards :
                    (i + 1) \in DOMAIN shards => Len(shards[i]) - 1 = writer.limit

\* A batch of three entries was written to a new writer of limit two: the
\* first shard is full and the second has the third row.
C13_Witness ==
    /\ call.fn = "Write"
    /\ call.rows = 3
    /\ call.batch = 3
    /\ call.plain
    /\ writer.limit = 2
    /\ DOMAIN shards = {1, 2}
    /\ Len(shards[1]) - 1 = 2
    /\ Len(shards[2]) - 1 = 1

\* C14: writer close idempotence.  Close, called any number of times on
\* any exit path, never returns an error and no shard file handle is
\* closed more than once.
C14_CloseIdempotent == ~writer.closeErr /\ ~writer.twice

\* C11: finalization ordering.  In a run that reaches the finalization the
\* merge starts only after Close has returned and after every
\* count-increment goroutine OnWrite started has finished; after the merge
\* has begun no shard is written and no count increment of the run is made
\* or started; the status ok and the row count are stored only after the
\* merge, and the count stored is the merge's.
C11_FinalizationOrder ==
    /\ [][(loopPc = "merge" /\ loopPc' = "final") =>
             /\ last.closed /\ last.waited
             /\ writer.file = 0 /\ ~writer.running
             /\ countWg[cur] = 0]_vars
    /\ [](loopPc = "final" => countWg[cur] = 0)
    /\ [][(shards' # shards /\ shards' # <<>>) =>
             (loopPc = "running" /\ writer.running)]_vars
    /\ [][\A r \in Runs :
             countWg'[r] > countWg[r] => (loopPc = "running" /\ r = cur)]_vars
    /\ [][\A r \in Runs :
             (store'[r].status = "ok" /\ store[r].status # "ok") =>
                /\ loopPc = "final" /\ last.merged /\ r = cur
                /\ store'[r].count = merged.count]_vars

\* A run whose rows were counted by goroutines has been closed, awaited and
\* merged, and its final update is due.
C11_Witness ==
    /\ loopPc = "final"
    /\ last.closed /\ last.waited /\ last.merged
    /\ merged.exists /\ merged.count = 2
    /\ store[cur].count = 2

\* C20: scheduling loop survival.  The loop stops only on an external
\* shutdown: whatever a run ended with, the loop has not stopped unless a
\* shutdown was requested.
C20_LoopStopsOnlyOnShutdown == loopPc = "stopped" => shutdown

(***************************************************************************)
(* The seed builder's claims, under SeedSpec.                              *)
(***************************************************************************)
Built == call.fn = "CreateSeedJobs" /\ call.pc # "args"

\* The lines the scanner delivers: those before the first over-long line.
RECURSIVE Delivered(_)
Delivered(lines) ==
    IF lines = <<>> \/ Head(lines) = LongLine THEN <<>>
    ELSE <<Head(lines)>> \o Delivered(Tail(lines))

IsBlank(line) == \A i \in DOMAIN line : line[i] = Space

\* The anchor the global text stands for, and the anchor a line resolves to:
\* its per-query coordinate when that parses, the global anchor otherwise.
GlobalAnchor == ParseGlobalGeo(call.geoCoordinates)
PerQuery(line) ==
    ParseLine(line, [lat |-> 0, lon |-> 0, geoCoordinates |-> <<>>])
ResolvedAnchor(line) ==
    IF PerQuery(line).hasPerQueryGeo
    THEN <<PerQuery(line).queryLat, PerQuery(line).queryLon>>
    ELSE GlobalAnchor

\* The anchors of the jobs the geo skip rule lets through.
RECURSIVE KeptAnchors(_)
KeptAnchors(lines) ==
    IF lines = <<>> THEN <<>>
    ELSE (IF IsBlank(Head(lines)) \/ ResolvedAnchor(Head(lines)) = <<0, 0>>
          THEN <<>> ELSE <<ResolvedAnchor(Head(lines))>>)
           \o KeptAnchors(Tail(lines))

\* C16: in direct-request mode a line yields a job iff its per-query geo
\* or, failing that, the global anchor resolves to a non-zero coordinate,
\* and the job's anchor is that coordinate: the anchors of the jobs are
\* the non-zero resolved anchors of the lines, in order.
C16_GeoSkipRule ==
    (Built /\ call.fastmode /\ ~call.res.err) =>
        [i \in DOMAIN call.res.jobs |->
            <<call.res.jobs[i].lat, call.res.jobs[i].lon>>]
          = KeptAnchors(call.lines)

\* The text of a line before its first directive mark, trimmed.
RECURSIVE UpToMark(_)
UpToMark(line) ==
    IF line = <<>> \/ Head(line) \in {IdMark, GeoMark} THEN <<>>
    ELSE <<Head(line)>> \o UpToMark(Tail(line))

\* The lines that yield a job: not blank and not dropped by the skip rule.
Skipped(line) ==
    /\ call.fastmode
    /\ ~PerQuery(line).hasPerQueryGeo
    /\ GlobalAnchor = <<0, 0>>
ValidLines(lines) ==
    SelectSeq(lines, LAMBDA l : ~IsBlank(l) /\ ~Skipped(l))

\* The anchor a job carries: its coordinate in direct-request mode, its
\* coordinate text in rendered-page mode.
AnchorText(j) ==
    IF j.kind = "search" THEN <<j.lat, j.lon>> ELSE j.geoCoordinates

C18_ZoomRadiusNormalised ==
    Built =>
        \A i \in DOMAIN call.res.jobs :
            LET j == call.res.jobs[i]
            IN  /\ j.zoom \in 1..21
                /\ j.zoom = IF call.zoom \in 1..21 THEN call.zoom ELSE 15
                /\ j.kind = "search" =>
                      /\ j.radius >= 0
                      /\ j.radius = IF call.radius < 0 THEN 10000
                                    ELSE call.radius

\* The queries of a list of jobs.
Queries(jobs) == [i \in DOMAIN jobs |-> jobs[i].query]

\* The queries of the jobs each line yields when it is the only line.
RECURSIVE LineByLine(_)
LineByLine(lines) ==
    IF lines = <<>> THEN <<>>
    ELSE Queries(CreateSeedJobs(call.fastmode, <<Head(lines)>>,
                                call.maxDepth, call.geoCoordinates,
                                call.zoom, call.radius).jobs)
           \o LineByLine(Tail(lines))

\* C19: CreateSeedJobs returns an error only when reading a line fails;
\* whatever the directives and the global anchor text are, each line that
\* is read yields the jobs it yields on its own; and on an error scrapeJob
\* starts none of the jobs built before it.
C19_OnlyReadErrors ==
    Built =>
        /\ call.res.err <=> \E i \in DOMAIN call.lines : call.lines[i] = LongLine
        /\ Queries(call.res.jobs) = LineByLine(Delivered(call.lines))
        /\ call.pc = "started" =>
              call.started = IF call.res.err THEN <<>> ELSE call.res.jobs

\* C19's case: a line has given a job, the next line could not be read, and
\* scrapeJob has returned.
C19_Witness ==
    /\ Built
    /\ call.pc = "started"
    /\ call.res.err
    /\ Len(call.res.jobs) = 1
    /\ call.lines[1] = <<"pub", GeoMark, "north">>
    /\ call.started = <<>>

\* The max-pages value that bounds the pagination of the run's jobs: the
\* seed jobs' maxPages in direct-request mode; the rendered-page jobs have
\* no page count, and the depth stands for it.
RunMaxPages(fastMode, depth) ==
    IF fastMode THEN NewSearchJob(1, depth).maxPages ELSE Max(1, depth)

\* C15: the timeout of the run is the larger of the caller's budget and the
\* minimum when a budget above zero is given, and the minimum otherwise,
\* the minimum being the larger of 180 and
\* seedCount * nominalPerJob * maxPages / concurrency + 120, with 15 seconds
\* per job in direct-request mode and 45 in rendered-page mode and with the
\* max-pages value that bounds the run's pagination.
C15_AdaptiveBudget ==
    (call.fn = "allowedSeconds" /\ call.pc = "done") =>
        LET nominalPerJob == IF call.fastMode THEN 15 ELSE 45
            maxPages == RunMaxPages(call.fastMode, call.depth)
            minimum == Max(180, (call.seedCount * nominalPerJob * maxPages)
                                   \div call.concurrency + 120)
        IN  /\ call.allowed = IF call.maxTime > 0
                              THEN Max(call.maxTime, minimum)
                              ELSE minimum
            /\ call.allowed >= minimum

\* C21: the deadline bounds every run.  Once the computed deadline has passed,
\* quiescence reached or not, the engine hands no job to Process any more,
\* the monitor's loop ends, and the run returns; unless the writer has
\* failed, it returns through the finalization (close, wait, merge, final
\* update).
C21_DeadlineBoundsRun ==
    /\ (mateCtx = "deadline") ~> (mateCtx = "none")
    /\ (mateCtx = "deadline" /\ exitMon.running) ~> ~exitMon.running
    /\ [][(mateCtx = "deadline" /\ mateCtx' = "deadline") =>
             /\ \A w \in Workers :
                   workers[w].pc = "idle" => workers'[w].pc = "idle"
             /\ workers' = workers => queue' = queue]_vars
    /\ [][(mateCtx = "deadline" /\ mateCtx' = "none" /\ ~engErr) =>
             /\ loopPc = "final"
             /\ startErr = "deadline"
             /\ last.closed /\ last.waited /\ last.merged]_vars

\* The only seed of a run has failed for good, so that the counters never
\* balance; the deadline has ended the run, which is finalized.
C21_Witness ==
    /\ loopPc = "final"
    /\ startErr = "deadline"
    /\ exitMon.seedCount = 1 /\ exitMon.seedCompleted = 0
    /\ ~IsDone(exitMon)
    /\ queue = {}
    /\ last.closed /\ last.waited /\ last.merged

\* The jobs of the run in existence: queued, in Process, or built by Process
\* and not yet returned.
JobsAlive ==
    queue \cup { workers[w].job : w \in { v \in Workers : workers[v].pc # "idle" } }
          \cup UNION { { workers[w].next[i] : i \in DOMAIN workers[w].next } :
                        w \in Workers }

\* C22: the pagination decision.  A successful step of a job of page k builds
\* one child iff the decoded entry count is at least 20 and k + 1 is below
\* the job's max-pages, and none otherwise; the child has page k + 1, offset
\* (k + 1) * 20, the parent's priority plus one, its query, max-pages and
\* deduplicator; what Process returns to the engine is exactly that child.
\* Every job of the run has offset = page * 20 and page < max-pages.
C22_PaginationDecision ==
    /\ [][\A w \in Workers :
             (workers[w].pc = "dedup" /\ workers'[w].pc = "report") =>
                LET j == workers[w].job
                    k == j.pageNum
                IN  IF workers[w].rawCount >= 20 /\ k + 1 < j.maxPages
                    THEN /\ Len(workers'[w].next) = 1
                         /\ workers'[w].next[1].pageNum = k + 1
                         /\ workers'[w].next[1].offset = (k + 1) * 20
                         /\ workers'[w].next[1].prio = j.prio + 1
                         /\ workers'[w].next[1].maxPages = j.maxPages
                         /\ workers'[w].next[1].dedup = j.dedup
                         /\ workers'[w].next[1].q = j.q
                    ELSE workers'[w].next = <<>>]_vars
    /\ [][\A w \in Workers :
             (workers[w].pc = "return" /\ workers'[w].pc = "send") =>
                queue' = queue \cup { workers[w].next[i] :
                                         i \in DOMAIN workers[w].next }]_vars
    /\ [](\A j \in JobsAlive :
             j.offset = j.pageNum * 20 /\ j.pageNum < j.maxPages)

\* A child job of page 1 has decoded a full page and built no child: page 2
\* would reach its max-pages.
C22_Witness ==
    \E w \in Workers :
       /\ workers[w].pc = "report"
       /\ workers[w].job.pageNum = 1
       /\ workers[w].job.offset = 20
       /\ workers[w].job.prio = defaultPrio + 1
       /\ workers[w].rawCount >= 20
       /\ workers[w].next = <<>>

\* The counters of the monitor after the step are those before it with ds
\* added to seeds-completed, df to places-found and dc to places-completed.
CountersAdd(ds, df, dc) ==
    /\ exitMon'.seedCount = exitMon.seedCount
    /\ exitMon'.seedCompleted = exitMon.seedCompleted + ds
    /\ exitMon'.placesFound = exitMon.placesFound + df
    /\ exitMon'.placesCompleted = exitMon.placesCompleted + dc

\* C23: the counter accounting of one successful step of a job of page k
\* with n surviving entries.  Building a child adds 1 to places-found and
\* building none adds nothing; the completion report adds 1 to
\* seeds-completed when k = 0 and 1 to places-completed when k > 0; then n is
\* added to places-found and n to places-completed; no other part of a step,
\* and no failing step, changes a counter.  Once every job built in the run
\* has made its reports, seeds-completed = seeds-total and places-completed
\* = places-found.
C23_CounterAccounting ==
    /\ [][\A w \in Workers :
             LET a == workers[w]
                 b == workers'[w]
             IN  /\ (a.pc = "dedup" /\ b.pc = "report") =>
                       CountersAdd(0, IF b.next # <<>> THEN 1 ELSE 0, 0)
                 /\ (a.pc = "report" /\ b.pc = "found") =>
                       IF a.job.pageNum = 0 THEN CountersAdd(1, 0, 0)
                       ELSE CountersAdd(0, 0, 1)
                 /\ (a.pc = "found" /\ b.pc = "completed") =>
                       CountersAdd(0, Len(a.unique), 0)
                 /\ (a.pc = "completed" /\ b.pc = "return") =>
                       CountersAdd(0, 0, Len(a.unique))]_vars
    /\ [][(loopPc = "running" /\ loopPc' = "running"
           /\ \A w \in Workers :
                 \/ workers'[w] = workers[w]
                 \/ workers[w].pc \notin {"dedup", "report", "found", "completed"}
                 \/ workers'[w].pc = "dedup") =>
             CountersAdd(0, 0, 0)]_vars
    /\ []((/\ created = reported
           /\ \A w \in Workers : workers[w].pc \in {"idle", "return", "send"}) =>
             /\ exitMon.seedCompleted = exitMon.seedCount
             /\ exitMon.placesCompleted = exitMon.placesFound)

\* Two seeds and a continuation page have all made their reports, with
\* surviving entries counted.
C23_Witness ==
    /\ loopPc = "running"
    /\ exitMon.seedCount = 2
    /\ PagesOf(reported) # {}
    /\ created = reported
    /\ \A w \in Workers : workers[w].pc = "idle"
    /\ exitMon.placesFound >= 3
    /\ exitMon.placesCompleted = exitMon.placesFound

\* C24: a failing step has no effect on the shared state of the run.  A step
\* of the engine that takes a job off the queue without a worker going on
\* with it (the body was empty after the first line or did not decode)
\* leaves the deduplicator, the counters, the jobs built and reported, the
\* entries returned, the writer and the shards as they were, and the other
\* jobs of the queue too; so every key the deduplicator holds was admitted
\* by a step that returns its entry, never by a failed attempt.
C24_FailingStepNoEffect ==
    /\ [][(loopPc = "running" /\ loopPc' = "running"
           /\ workers' = workers /\ queue' # queue) =>
             /\ seen' = seen
             /\ exitMon' = exitMon
             /\ admits' = admits
             /\ created' = created /\ reported' = reported
             /\ retCount' = retCount
             /\ writer' = writer /\ shards' = shards
             /\ \E j \in queue :
                   /\ queue \ {j} \subseteq queue'
                   /\ queue' \subseteq (queue \ {j})
                                        \cup {[j EXCEPT !.attempts = @ + 1]}]_vars
    /\ [](\A d \in Dedupers : \A k \in seen[d] :
             \/ retCount[k] >= 1
             \/ \E w \in Workers :
                   /\ workers[w].pc \in {"dedup", "report", "found",
                                         "completed", "return"}
                   /\ \E i \in DOMAIN workers[w].unique :
                         DedupKey(workers[w].unique[i]) = k)

\* A continuation job waits for its second attempt, the first having
\* failed, while the deduplicator holds keys and the counters have counted
\* places of its siblings.
C24_Witness ==
    /\ loopPc = "running"
    /\ \E j \in queue : j.attempts = 1 /\ j.pageNum = 1
    /\ seen[RunDeduper] # {}
    /\ exitMon.placesFound >= 2
    /\ exitMon.seedCompleted >= 1

\* C25: writer mutual exclusion.  Write, Close and the deferred function of
\* Run each run under the writer's lock, one at a time, in any order; the
\* writer has one current shard handle at most; and no record is written to
\* a handle that has been closed already.
C25_NoWriteToClosedHandle ==
    /\ ~writer.stale
    /\ (writer.file # 0 /\ writer.fileClosed) => writer.buffered = 0

\* C26: merge failure preserves shards.  When mergeCSVFiles did not bring the
\* rows of a shard into the merged file (the merged file could not be
\* created, or the shard could not be read or parsed), the shard files are
\* left as they were; a shard is deleted only if its data rows were written
\* to the merged file.
C26_MergeFailurePreservesShards ==
    call.fn = "mergeCSVFiles" =>
        /\ (call.err \/ call.skipped # {}) => shards = call.sh
        /\ \A i \in DOMAIN call.sh \ DOMAIN shards :
              /\ ~call.err
              /\ i \notin call.skipped
              /\ \E at \in 0..Len(merged.rows) :
                    SubSeq(merged.rows, at + 1, at + Len(call.sh[i]) - 1)
                       = Tail(call.sh[i])

\* C27: the flush bound.  The records in the csv writer's buffer, written
\* and not flushed, are never more than 99: on an open handle they are the
\* rows written since the last multiple of 100 of the shard's row count, the
\* header being flushed before the first row; after a rotation, after Close
\* and after the deferred function of Run the buffer of an open or
\* forgotten handle is empty.
C27_FlushBound ==
    /\ writer.buffered <= 99
    /\ (writer.file # 0 /\ ~writer.fileClosed) =>
          /\ writer.buffered = writer.currentCount % 100
          /\ Len(shards[writer.file]) = 1 + writer.currentCount
    /\ writer.file = 0 => writer.buffered = 0
    /\ (writer.file # 0 /\ writer.fileClosed /\ ~writer.stale) =>
          writer.buffered = 0

\* A shard of row limit 120 holds 119 rows: the first 100 were flushed on
\* the hundredth, 19 are in the buffer.
C27_Witness ==
    /\ writer.limit = 120
    /\ writer.file = 1 /\ ~writer.fileClosed
    /\ writer.currentCount = 119
    /\ writer.buffered = 19
    /\ Len(shards[1]) = 120

\* C28: shard indices.  Whatever Write, Close and returns of Run there were,
\* failed file creations included, the shard files created are those of
\* indices 1..k, k being one below the writer's next index; a step creates
\* exactly the indices from the next index on, none of them a file that
\* exists, and it never shortens or changes what a shard file held before.
C28_ShardIndices ==
    /\ [](call.fn = "Write" =>
            /\ DOMAIN shards = 1..(writer.fileIndex - 1)
            /\ writer.file # 0 => writer.file = writer.fileIndex - 1)
    /\ [][call'.fn = "Write" =>
             /\ DOMAIN shards' \ DOMAIN shards
                   = writer.fileIndex..(writer'.fileIndex - 1)
             /\ \A i \in DOMAIN shards :
                   /\ i \in DOMAIN shards'
                   /\ Len(shards'[i]) >= Len(shards[i])
                   /\ SubSeq(shards'[i], 1, Len(shards[i])) = shards[i]]_vars

\* A writer of limit 2 was closed with one row in its first shard and
\* written again; a rotation failed to create its file, leaving a closed
\* handle behind while Run was going, and a later one created shard 3.
C28_Witness ==
    /\ call.fn = "Write"
    /\ writer.running
    /\ writer.twice
    /\ writer.limit = 2
    /\ writer.file = 3 /\ ~writer.fileClosed
    /\ DOMAIN shards = {1, 2, 3}
    /\ Len(shards[1]) = 2

\* C29: the final row count.  While a run writes, the count increments made
\* and in flight are as many as the records in its shards, one OnWrite call
\* for each; the update that stores the status ok finds every increment
\* made and stores that same count; and the count of a run stored as ok is
\* not written again.
C29_FinalRowCount ==
    /\ [](loopPc \in {"running", "close", "wait", "merge"} =>
            store[cur].count + countWg[cur]
               = Len(RowsByIndex(shards, Cardinality(DOMAIN shards))))
    /\ [][\A r \in Runs :
             (store'[r].status = "ok" /\ store[r].status # "ok") =>
                /\ countWg[r] = 0
                /\ store'[r].count = store[r].count]_vars
    /\ [][\A r \in Runs :
             store[r].status = "ok" => store'[r] = store[r]]_vars

====
